---- MODULE Spec2Model ----
(***************************************************************************)
(* Matching & application pipeline of jobint-backend.                      *)
(*                                                                         *)
(* State: the PostgreSQL tables job_matches, application_queue,            *)
(* applications and notifications, the BullMQ queue 'applications' held in *)
(* Redis, and the position of every handler that spans more than one       *)
(* awaited statement (matching passes, review requests, queueApplication   *)
(* calls, worker attempts).  One action is one awaited statement together  *)
(* with the synchronous code that follows it up to the next await.         *)
(*                                                                         *)
(* The SQL of the queue worker, of the authenticated review route and of   *)
(* ApplicationService names the match reference of application_queue       *)
(* job_match_id, the guest route names it match_id; the model keeps one    *)
(* field, match, written by whichever statement runs.                      *)
(***************************************************************************)
EXTENDS Integers, Sequences, FiniteSets, TLC

\* ------------------------------------------------------------------ bounds
MaxPassRuns == 1      \* completed runs after which a matching pass slot stops
MaxReviewRuns == 2    \* review requests served in all
MaxQueueCalls == 1    \* queueApplication calls
MaxDirectApplies == 1 \* applyToJob calls made outside the worker
MaxFaults == 1        \* statements that fail because the storage is unavailable
MaxCvRuns == 1        \* processCVAsync calls per slot
MaxPoolStarts == 12   \* starts of attempts seen by the worker's limiter
MaxTicks == 2         \* steps of the clock
MaxHours == 3         \* hourly runs of interviewReminders

\* ------------------------------------------------------- program constants
MinScore == 60
SkillPoints == 40
TitleFull == 25
TitleDefault == 5
LocationFull == 20
LocationPartial == 10
LocationDefault == 5
SalaryFull == 10
SalaryNeutral == 5
SalaryBelow == 0
TypeFull == 5
TypeDefault == 3
MaxTotal == 100
DefaultLimit == 10
RetryLimit == 3
BullAttempts == 3
BackoffDelay == 5000

NULL == "null"

\* ----------------------------------------------------------------- strings
\* A JavaScript string is a sequence of one-character strings.
Upper == <<"A","B","C","D","E","F","G","H","I","J","K","L","M",
           "N","O","P","Q","R","S","T","U","V","W","X","Y","Z">>
Lower == <<"a","b","c","d","e","f","g","h","i","j","k","l","m",
           "n","o","p","q","r","s","t","u","v","w","x","y","z">>

LowerChar(c) ==
  IF \E k \in 1..26 : Upper[k] = c
    THEN Lower[CHOOSE k \in 1..26 : Upper[k] = c]
    ELSE c

\* String.prototype.toLowerCase
toLowerCase(s) == [k \in 1..Len(s) |-> LowerChar(s[k])]

\* String.prototype.includes
includes(text, needle) ==
  \E k \in 0..(Len(text) - Len(needle)) :
    \A d \in 1..Len(needle) : text[k + d] = needle[d]

Digits == <<"0","1","2","3","4","5","6","7","8","9">>
IsDigit(c) == \E k \in 1..10 : Digits[k] = c
DigitVal(c) == (CHOOSE k \in 1..10 : Digits[k] = c) - 1

\* Number of consecutive digits of s starting at position k, at most max.
RECURSIVE DigitRun(_, _, _)
DigitRun(s, k, max) ==
  IF max = 0 \/ k > Len(s) \/ ~IsDigit(s[k]) THEN 0
  ELSE 1 + DigitRun(s, k + 1, max - 1)

\* Value of the n digits of s starting at k, appended to acc.
RECURSIVE DigitsValue(_, _, _, _)
DigitsValue(s, k, n, acc) ==
  IF n = 0 THEN acc
  ELSE DigitsValue(s, k + 1, n - 1, acc * 10 + DigitVal(s[k]))

\* The greedy repetition (?:,?\d{3})* of the salary pattern, from position k.
RECURSIVE SalaryGroups(_, _, _)
SalaryGroups(s, k, acc) ==
  LET k2 == IF k <= Len(s) /\ s[k] = "," THEN k + 1 ELSE k
  IN IF DigitRun(s, k2, 3) = 3
       THEN SalaryGroups(s, k2 + 3, DigitsValue(s, k2, 3, acc))
       ELSE acc

\* MatchingService.parseSalary: the first match of
\* /\$?(\d{1,3}(?:,?\d{3})*(?:\.\d+)?)/ starts at the first digit of the
\* string; parseFloat of it with the commas removed.  The fraction is dropped:
\* the only use of the value is a comparison with the integer salary_min.
parseSalary(salaryString) ==
  IF Len(salaryString) = 0 THEN 0
  ELSE IF ~\E k \in 1..Len(salaryString) : IsDigit(salaryString[k]) THEN 0
  ELSE LET k == CHOOSE i \in 1..Len(salaryString) :
                  /\ IsDigit(salaryString[i])
                  /\ \A h \in 1..(i - 1) : ~IsDigit(salaryString[h])
           n == DigitRun(salaryString, k, 3)
       IN SalaryGroups(salaryString, k + n, DigitsValue(salaryString, k, n, 0))

\* ----------------------------------------------------------------- scoring
\* Math.round(a / b) for a >= 0, b > 0
RoundDiv(a, b) == (2 * a + b) \div (2 * b)

matchSkills(userSkills, jobText) ==
  IF Len(userSkills) = 0 \/ Len(jobText) = 0 THEN 0
  ELSE LET jobTextLower == toLowerCase(jobText)
           matchedSkills == {k \in 1..Len(userSkills) :
                               includes(jobTextLower, toLowerCase(userSkills[k]))}
       IN RoundDiv(Cardinality(matchedSkills) * SkillPoints, Len(userSkills))

matchTitle(desiredTitles, jobTitle) ==
  IF Len(desiredTitles) = 0 \/ Len(jobTitle) = 0 THEN TitleDefault
  ELSE LET jobTitleLower == toLowerCase(jobTitle)
           hasMatch == \E k \in 1..Len(desiredTitles) :
                         \/ includes(jobTitleLower, toLowerCase(desiredTitles[k]))
                         \/ includes(toLowerCase(desiredTitles[k]), jobTitleLower)
       IN IF hasMatch THEN TitleFull ELSE TitleDefault

matchLocation(profile, job) ==
  LET remotePreference == profile.remote_preference
      jobRemoteType == job.remote_type
  IN IF remotePreference = "any" THEN LocationFull
     ELSE IF remotePreference = jobRemoteType THEN LocationFull
     ELSE IF remotePreference = "hybrid" /\ jobRemoteType \in {"remote", "onsite"}
       THEN LocationPartial
     ELSE LocationDefault

matchSalary(profile, salaryRange) ==
  IF profile.salary_min = 0 \/ Len(salaryRange) = 0 THEN SalaryNeutral
  ELSE IF parseSalary(salaryRange) >= profile.salary_min THEN SalaryFull
  ELSE SalaryBelow

matchJobType(profile, jobType) ==
  IF jobType = NULL THEN TypeDefault
  ELSE IF jobType \in {"full_time", "full-time"} THEN TypeFull
  ELSE TypeDefault

Reason(type, weight) ==
  IF weight > 0 THEN <<[type |-> type, weight |-> weight]>> ELSE <<>>

Min(a, b) == IF a <= b THEN a ELSE b

calculateMatchScore(profile, skills, desiredTitles, job) ==
  LET skillScore == matchSkills(skills,
                      IF Len(job.description) > 0 THEN job.description ELSE job.title)
      titleScore == matchTitle(desiredTitles, job.title)
      locationScore == matchLocation(profile, job)
      salaryScore == matchSalary(profile, job.salary_range)
      typeScore == matchJobType(profile, job.job_type)
      totalScore == skillScore + titleScore + locationScore + salaryScore + typeScore
  IN [total |-> Min(MaxTotal, totalScore),
      reasons |-> Reason("skill", skillScore) \o Reason("title", titleScore)
                  \o Reason("location", locationScore)
                  \o Reason("salary", salaryScore) \o Reason("type", typeScore)]

\* -------------------------------------------------------------------- data
UserIds == {"u1", "u2"}
ListingIds == {"l1", "l2", "l3"}

\* user_profiles: u1 has a profile, u2 has none.  salary_min 0 stands for
\* NULL as well: !profile.salary_min is true of both.
Profiles ==
  [u \in {"u1"} |->
     [skills |-> << <<"p","y">>, <<"r","e">> >>,
      desired_job_titles |-> << <<"E","n","g">> >>,
      remote_preference |-> "remote",
      salary_min |-> 0]]

\* job_listings, all active and scraped within the last 30 days.
JobListings ==
  [l \in ListingIds |->
     CASE l = "l1" -> [source |-> "linkedin", title |-> <<"P","y"," ","e","n","g">>,
                       description |-> <<"P","Y"," ","r","e">>,
                       salary_range |-> <<"$","9","0",",","0","0","0">>,
                       remote_type |-> "remote", job_type |-> "full_time"]
       [] l = "l2" -> [source |-> "remoteok", title |-> <<"C","o","o","k">>,
                       description |-> <<>>,
                       salary_range |-> <<>>,
                       remote_type |-> "onsite", job_type |-> "contract"]
       [] l = "l3" -> [source |-> "indeed", title |-> <<"e","n","g">>,
                       description |-> <<"R","e","d","i","s">>,
                       salary_range |-> <<"D","O","E">>,
                       remote_type |-> "remote", job_type |-> NULL]]

\* ORDER BY scraped_at DESC
ScrapedOrder == <<"l1", "l2", "l3">>

Passes == {"p1", "p2"}
Limits == {1, DefaultLimit}

Requests == {"r1", "r2"}
Routes == {"auth", "guest"}
\* req.body.approved: a boolean, or anything else
Bodies == {"true", "false", "other"}

\* The concurrent processor invocations of the worker, in slot order.
WorkerSlots == <<"w1", "w2">>
Workers == {WorkerSlots[k] : k \in 1..Len(WorkerSlots)}
Directs == {"d1"}
QueueCalls == {"q1"}
Callers == Workers \cup Directs

VARIABLES
  job_matches,        \* table job_matches: sequence of rows, id = position
  pass,               \* matchJobsForUser calls in progress
  application_queue,  \* table application_queue: sequence of rows, id = position
  review,             \* review requests in progress
  applications,       \* table applications
  notifications,      \* table notifications
  bull,               \* BullMQ queue 'applications': sequence of jobs, id = position
  qcall,              \* queueApplication calls in progress
  worker,             \* processor invocations of applicationWorker
  frame,              \* applyToJob calls in progress, one per caller
  direct,             \* POST /api/applications requests in progress
  attemptsMadeCountsStart, \* whether job.attemptsMade already counts the running attempt
  faults,             \* statements that have failed so far
  scoring,            \* calculateMatchScore called twice with the same arguments
  user_profiles,      \* table user_profiles: sequence of rows, id = position
  cv,                 \* processCVAsync calls in progress
  pool,               \* the worker's slots and limiter, attempts as starts and ends
  reminders,          \* table reminders
  rjob                \* the interviewReminders run in progress, and the hour

auxVars == <<pool, reminders, rjob>>
queueVars == <<applications, notifications, bull, qcall, worker, frame, direct,
               attemptsMadeCountsStart, scoring, user_profiles, cv, auxVars>>
vars == <<job_matches, pass, application_queue, review, applications,
          notifications, bull, qcall, worker, frame, direct,
          attemptsMadeCountsStart, faults, scoring, user_profiles, cv, auxVars>>

\* A statement runs (ok) or raises because the storage is unavailable.
Statement(ok) ==
  /\ ok \/ faults < MaxFaults
  /\ faults' = IF ok THEN faults ELSE faults + 1

\* --------------------------------------------------------------- sequences
Range(q) == {q[k] : k \in 1..Len(q)}
RowIds(table) == 1..Len(table)
Count(table, P(_)) == Cardinality({k \in RowIds(table) : P(table[k])})

\* ------------------------------------------------------------ job_matches
MatchRow(userId, jobId, score) ==
  [user_id |-> userId, job_id |-> jobId,
   match_score |-> score.total, match_reasons |-> score.reasons,
   status |-> "pending", reviewed |-> FALSE, approved |-> FALSE]

MatchedJobs(table, userId) ==
  {table[k].job_id : k \in {h \in RowIds(table) : table[h].user_id = userId}}

\* SELECT ... FROM job_listings WHERE is_active AND id NOT IN (SELECT job_id
\* FROM job_matches WHERE user_id = $1) ORDER BY scraped_at DESC LIMIT 100
SelectUnmatched(table, userId) ==
  SelectSeq(ScrapedOrder, LAMBDA l : l \notin MatchedJobs(table, userId))

\* The INSERT on a table without the UNIQUE(user_id, job_id) constraint.
InsertMatchNoConstraint(table, userId, jobId, score) ==
  [table |-> Append(table, MatchRow(userId, jobId, score)), result |-> "inserted"]

\* INSERT INTO job_matches ... ON CONFLICT (user_id, job_id) DO NOTHING
InsertMatch(table, userId, jobId, score) ==
  IF jobId \in MatchedJobs(table, userId)
    THEN [table |-> table, result |-> "conflict"]
    ELSE [table |-> Append(table, MatchRow(userId, jobId, score)),
          result |-> "inserted"]

\* --------------------------------------------------------- matchJobsForUser
IdlePass ==
  [pc |-> "idle", userId |-> NULL, limit |-> 0, jobs |-> <<>>, i |-> 0,
   matches |-> <<>>, result |-> [l \in ListingIds |-> "none"]]

\* Entry: SELECT * FROM user_profiles WHERE user_id = $1
PassProfile(p, userId, limit) ==
  /\ UNCHANGED faults
  /\ pass[p].pc = "idle"
  /\ pass[p].runs < MaxPassRuns
  /\ pass' = [pass EXCEPT ![p] =
       IF userId \in DOMAIN Profiles
         THEN [IdlePass EXCEPT !.pc = "select", !.userId = userId, !.limit = limit]
                @@ [runs |-> pass[p].runs]
         ELSE [IdlePass EXCEPT !.pc = "done", !.userId = userId, !.limit = limit]
                @@ [runs |-> pass[p].runs]]
  /\ UNCHANGED <<job_matches, application_queue, review, queueVars>>

\* The query for the unmatched listings; an empty result returns [].
PassSelect(p) ==
  /\ UNCHANGED faults
  /\ pass[p].pc = "select"
  /\ LET jobs == SelectUnmatched(job_matches, pass[p].userId)
     IN pass' = [pass EXCEPT ![p].jobs = jobs,
                             ![p].i = 1,
                             ![p].pc = IF Len(jobs) = 0 THEN "done" ELSE "loop"]
  /\ UNCHANGED <<job_matches, application_queue, review, queueVars>>

\* if (score.total >= 60); AboveThresholdAlways is the loop without this test.
AboveThresholdAlways(score) == TRUE
AboveThreshold(score) == score.total >= MinScore

\* One iteration of the loop over the selected listings.
PassIter(p, dbOk) ==
  /\ Statement(dbOk)
  /\ pass[p].pc = "loop"
  /\ LET self == pass[p]
         jobId == self.jobs[self.i]
         profile == Profiles[self.userId]
         score == calculateMatchScore(profile, profile.skills,
                                      profile.desired_job_titles, JobListings[jobId])
         ins == InsertMatch(job_matches, self.userId, jobId, score)
         saved == AboveThreshold(score) /\ dbOk /\ ins.result # "unique_violation"
         matches == IF saved THEN Append(self.matches, jobId) ELSE self.matches
         result == IF ~AboveThreshold(score) THEN "discarded"
                   ELSE IF dbOk THEN ins.result ELSE "unavailable"
         stop == Len(matches) >= self.limit \/ self.i = Len(self.jobs)
     IN /\ ~AboveThreshold(score) => dbOk
        /\ job_matches' = IF saved THEN ins.table ELSE job_matches
        /\ pass' = [pass EXCEPT ![p].matches = matches,
                                ![p].result[jobId] = result,
                                ![p].i = self.i + 1,
                                ![p].pc = IF stop THEN "done" ELSE "loop"]
  /\ UNCHANGED <<application_queue, review, queueVars>>

\* The call returns its list of matches; the slot is free for the next call.
PassReturn(p) ==
  /\ UNCHANGED faults
  /\ pass[p].pc = "done"
  /\ pass' = [pass EXCEPT ![p] = IdlePass @@ [runs |-> pass[p].runs + 1]]
  /\ UNCHANGED <<job_matches, application_queue, review, queueVars>>

\* -------------------------------------------------------------- review gate
\* UPDATE job_matches SET reviewed = TRUE, approved = $1 [, status = $2]
\* WHERE id = $3 AND user_id = $4 RETURNING *
\* reviewMatch (route "auth") leaves status alone, the guest route sets it.
\* MatchesAnyUser is the WHERE clause without its condition on user_id.
MatchesAnyUser(table, matchId, userId) == matchId \in RowIds(table)
Matches(table, matchId, userId) ==
  matchId \in RowIds(table) /\ table[matchId].user_id = userId

\* The UPDATE of a review; UpdateReviewApprovedOnly is the statement without
\* reviewed = TRUE in its SET clause.
UpdateReviewApprovedOnly(table, route, matchId, userId, approved) ==
  IF Matches(table, matchId, userId)
    THEN [table |-> [table EXCEPT ![matchId].approved = approved,
                                  ![matchId].status =
                                     IF route = "guest"
                                       THEN (IF approved THEN "approved" ELSE "rejected")
                                       ELSE @],
          rows |-> 1]
    ELSE [table |-> table, rows |-> 0]
UpdateReview(table, route, matchId, userId, approved) ==
  IF Matches(table, matchId, userId)
    THEN [table |-> [table EXCEPT ![matchId].reviewed = TRUE,
                                  ![matchId].approved = approved,
                                  ![matchId].status =
                                     IF route = "guest"
                                       THEN (IF approved THEN "approved" ELSE "rejected")
                                       ELSE @],
          rows |-> 1]
    ELSE [table |-> table, rows |-> 0]

\* application_queue rows.  source names the statement that wrote the row.
QueueRow(matchId, userId, jobId, status, error, source) ==
  [match |-> matchId, user_id |-> userId, job_id |-> jobId, status |-> status,
   error_message |-> error, retry_count |-> 0, source |-> source]

\* INSERT INTO application_queue (job_match_id, status) VALUES ($1, 'pending')
\* INSERT INTO application_queue (user_id, job_id, match_id, status)
\*   VALUES ($1, (SELECT job_id FROM job_matches WHERE id = $2), $2, 'pending')
ReviewQueueRow(route, userId, matchId) ==
  IF route = "guest"
    THEN QueueRow(matchId, userId, job_matches[matchId].job_id, "pending", NULL, "review")
    ELSE QueueRow(matchId, NULL, NULL, "pending", NULL, "review")

IdleReview ==
  [pc |-> "idle", route |-> NULL, userId |-> NULL, matchId |-> 0,
   approved |-> FALSE, status |-> 0,
   wasReviewed |-> FALSE, updated |-> FALSE, enqueued |-> 0]

\* Requests served or in progress
RECURSIVE SumRuns(_)
SumRuns(S) ==
  IF S = {} THEN 0
  ELSE LET r == CHOOSE x \in S : TRUE
       IN review[r].runs + (IF review[r].pc = "idle" THEN 0 ELSE 1) + SumRuns(S \ {r})

ReviewsStarted == SumRuns(Requests)

\* The handler up to and including the UPDATE.  wasReviewed, updated and
\* enqueued record what the request saw and did.
ReviewUpdate(r, route, userId, matchId, body, dbOk) ==
  /\ Statement(dbOk)
  /\ review[r].pc = "idle"
  /\ ReviewsStarted < MaxReviewRuns
  /\ LET approved == body = "true"
         upd == UpdateReview(job_matches, route, matchId, userId, approved)
         found == upd.rows > 0
         start == [IdleReview EXCEPT !.route = route, !.userId = userId,
                                     !.matchId = matchId, !.approved = approved]
                    @@ [runs |-> review[r].runs]
     IN IF body \notin {"true", "false"}
          THEN /\ dbOk
               /\ review' = [review EXCEPT ![r] =
                    [start EXCEPT !.pc = "done", !.status = 400]]
               /\ UNCHANGED job_matches
        ELSE IF ~dbOk
          THEN /\ review' = [review EXCEPT ![r] =
                    [start EXCEPT !.pc = "done", !.status = 500]]
               /\ UNCHANGED job_matches
        ELSE /\ job_matches' = upd.table
             /\ review' = [review EXCEPT ![r] =
                  [start EXCEPT
                     !.wasReviewed = Matches(job_matches, matchId, userId)
                                     /\ job_matches[matchId].reviewed,
                     !.updated = found,
                     !.pc = IF ~found THEN "done"
                            ELSE IF approved THEN "enqueue" ELSE "done",
                     !.status = IF ~found THEN 404
                                ELSE IF approved THEN 0 ELSE 200]]
  /\ UNCHANGED <<pass, application_queue, queueVars>>

\* if (approved) INSERT INTO application_queue ...; then the 200 response.
ReviewEnqueue(r, dbOk) ==
  /\ Statement(dbOk)
  /\ review[r].pc = "enqueue"
  /\ LET self == review[r]
     IN IF dbOk
          THEN /\ application_queue' = Append(application_queue,
                    ReviewQueueRow(self.route, self.userId, self.matchId))
               /\ review' = [review EXCEPT ![r].pc = "done", ![r].status = 200,
                                           ![r].enqueued = 1]
          ELSE /\ review' = [review EXCEPT ![r].pc = "done", ![r].status = 500]
               /\ UNCHANGED application_queue
  /\ UNCHANGED <<job_matches, pass, queueVars>>

\* The response is sent; the slot is free for the next request.
ReviewRespond(r) ==
  /\ UNCHANGED faults
  /\ review[r].pc = "done"
  /\ review' = [review EXCEPT ![r] = IdleReview @@ [runs |-> review[r].runs + 1]]
  /\ UNCHANGED <<job_matches, pass, application_queue, queueVars>>

\* ------------------------------------------------------------- applyToJob
IdleFrame ==
  [pc |-> "idle", userId |-> NULL, jobListingId |-> NULL,
   success |-> FALSE, threw |-> FALSE, error |-> NULL, applicationId |-> 0]

CallApply(userId, jobListingId) ==
  [IdleFrame EXCEPT !.pc = "submit", !.userId = userId, !.jobListingId = jobListingId]

\* The SELECTs of the listing and the user, then applyLinkedIn / applyIndeed /
\* applyAngelList on a browser page.  outcome is what the site did.
ApplySubmit(c, outcome, dbOk) ==
  /\ Statement(dbOk)
  /\ frame[c].pc = "submit"
  /\ LET source == JobListings[frame[c].jobListingId].source
         error == IF ~dbOk THEN "storage unavailable"
                  ELSE IF source \notin {"linkedin", "indeed", "angellist"}
                    THEN "Unsupported job source"
                  ELSE IF source = "angellist" \/ outcome = "fail"
                    THEN "Application submission failed"
                  ELSE NULL
     IN /\ ~dbOk => outcome = "ok"
        /\ source \notin {"linkedin", "indeed"} => outcome = "ok"
        /\ frame' = [frame EXCEPT ![c].pc = IF error = NULL THEN "record" ELSE "fail",
                                  ![c].error = error]
        /\ bull' = IF c \in Workers /\ error = NULL
                     THEN [bull EXCEPT ![worker[c].job].submitted = @ + 1]
                     ELSE bull
  /\ UNCHANGED <<job_matches, pass, application_queue, review, applications,
                 notifications, qcall, worker, direct, attemptsMadeCountsStart, scoring, user_profiles, cv, auxVars>>

\* INSERT INTO applications (user_id, job_listing_id, status)
\*   VALUES ($1, $2, 'applied') RETURNING id
ApplyRecord(c, dbOk) ==
  /\ Statement(dbOk)
  /\ frame[c].pc = "record"
  /\ IF dbOk
       THEN /\ applications' = Append(applications,
                 [user_id |-> frame[c].userId, job_id |-> frame[c].jobListingId,
                  status |-> "applied"])
            /\ frame' = [frame EXCEPT ![c].pc = "returned", ![c].success = TRUE,
                                      ![c].applicationId = Len(applications) + 1]
       ELSE /\ frame' = [frame EXCEPT ![c].pc = "fail",
                                      ![c].error = "storage unavailable"]
            /\ UNCHANGED applications
  /\ UNCHANGED <<job_matches, pass, application_queue, review,
                 notifications, bull, qcall, worker, direct, attemptsMadeCountsStart, scoring, user_profiles, cv, auxVars>>

\* SELECT id FROM job_matches WHERE user_id = $1 AND job_listing_id = $2 LIMIT 1
MatchIdOf(table, userId, jobId) ==
  LET ids == {k \in RowIds(table) : table[k].user_id = userId /\ table[k].job_id = jobId}
  IN IF ids = {} THEN 0 ELSE CHOOSE k \in ids : \A h \in ids : k <= h

\* catch: INSERT INTO application_queue (job_match_id, status, error_message)
\*   VALUES ((SELECT id FROM job_matches ...), 'failed', $3)
ApplyFail(c, dbOk) ==
  /\ Statement(dbOk)
  /\ frame[c].pc = "fail"
  /\ IF dbOk
       THEN /\ application_queue' = Append(application_queue,
                 QueueRow(MatchIdOf(job_matches, frame[c].userId, frame[c].jobListingId),
                          NULL, NULL, "failed", frame[c].error, "applyToJob"))
            /\ frame' = [frame EXCEPT ![c].pc = "returned", ![c].success = FALSE]
       ELSE /\ frame' = [frame EXCEPT ![c].pc = "returned", ![c].success = FALSE,
                                      ![c].threw = TRUE,
                                      ![c].error = "storage unavailable"]
            /\ UNCHANGED application_queue
  /\ UNCHANGED <<job_matches, pass, review, applications,
                 notifications, bull, qcall, worker, direct, attemptsMadeCountsStart, scoring, user_profiles, cv, auxVars>>

\* The browser page or the database never answers: the await of applyToJob
\* that is in progress never settles.  No statement of applyToJob or of its
\* callers bounds the time of the call.
ApplyHang(c) ==
  /\ UNCHANGED faults
  /\ frame[c].pc = "submit"
  /\ frame' = [frame EXCEPT ![c].pc = "hung"]
  /\ UNCHANGED <<job_matches, pass, application_queue, review, applications,
                 notifications, bull, qcall, worker, direct, attemptsMadeCountsStart, scoring, user_profiles, cv, auxVars>>

\* --------------------------------------------------------- queueApplication
\* Ids: a row of application_queue is identified by the UUID the database
\* generated for it, a BullMQ job by the counter value the queue assigned.
RowKey(k) == <<"uuid", k>>
BullKey(j) == <<"bull", j>>

BullJob(userId, jobListingId, matchId) ==
  [userId |-> userId, jobListingId |-> jobListingId, matchId |-> matchId,
   state |-> "waiting", attemptsStarted |-> 0, attemptsFailed |-> 0,
   failedReason |-> NULL, delays |-> <<>>,
   outcomes |-> <<>>, caught |-> 0, lastError |-> NULL,
   applicationIds |-> <<>>, row |-> 0, submitted |-> 0, stalled |-> 0,
   notifyFailed |-> FALSE]

\* The listings queueApplication is called for.
QueuedListings == {"l1"}

IdleQCall == [pc |-> "idle", job |-> 0, threw |-> FALSE]

\* applicationQueue.add('apply', {userId, jobListingId, matchId},
\*   {attempts: 3, backoff: {type: 'exponential', delay: 5000}})
QueueAdd(c, matchId, redisOk) ==
  /\ Statement(redisOk)
  /\ qcall[c].pc = "idle"
  /\ qcall[c].runs < MaxQueueCalls
  /\ matchId \in RowIds(job_matches)
  /\ job_matches[matchId].job_id \in QueuedListings
  /\ IF redisOk
       THEN /\ bull' = Append(bull, BullJob(job_matches[matchId].user_id,
                                            job_matches[matchId].job_id, matchId))
            /\ qcall' = [qcall EXCEPT ![c].pc = "insert", ![c].job = Len(bull) + 1,
                                      ![c].threw = FALSE]
       ELSE /\ qcall' = [qcall EXCEPT ![c].pc = "done", ![c].job = 0,
                                      ![c].threw = TRUE]
            /\ UNCHANGED bull
  /\ UNCHANGED <<job_matches, pass, application_queue, review, applications,
                 notifications, worker, frame, direct, attemptsMadeCountsStart, scoring, user_profiles, cv, auxVars>>

\* INSERT INTO application_queue (job_match_id, status) VALUES ($1, 'pending')
\* row, in the job, remembers which record was written for it; the code keeps
\* no such reference.  The other fields of a job that BullMQ does not hold
\* are history: outcomes (what applyToJob returned to each attempt), caught
\* (attempts that ended in the catch block), lastError (the error of the last
\* of these), applicationIds (the ids applyToJob returned) and submitted (how
\* often the site accepted the application) and notifyFailed (the INSERT
\* INTO notifications of an attempt raised).
QueueInsert(c, dbOk) ==
  /\ Statement(dbOk)
  /\ qcall[c].pc = "insert"
  /\ LET j == qcall[c].job
     IN IF dbOk
          THEN /\ application_queue' = Append(application_queue,
                    QueueRow(bull[j].matchId, NULL, NULL, "pending", NULL,
                             "queueApplication"))
               /\ bull' = [bull EXCEPT ![j].row = Len(application_queue) + 1]
               /\ qcall' = [qcall EXCEPT ![c].pc = "done"]
          ELSE /\ qcall' = [qcall EXCEPT ![c].pc = "done", ![c].threw = TRUE]
               /\ UNCHANGED <<application_queue, bull>>
  /\ UNCHANGED <<job_matches, pass, review, applications,
                 notifications, worker, frame, direct, attemptsMadeCountsStart, scoring, user_profiles, cv, auxVars>>

QueueReturn(c) ==
  /\ UNCHANGED faults
  /\ qcall[c].pc = "done"
  /\ qcall' = [qcall EXCEPT ![c] = IdleQCall @@ [runs |-> qcall[c].runs + 1]]
  /\ UNCHANGED <<job_matches, pass, application_queue, review, applications,
                 notifications, bull, worker, frame, direct, attemptsMadeCountsStart, scoring, user_profiles, cv, auxVars>>

\* -------------------------------------------------------- applicationWorker
IdleWorker == [pc |-> "idle", job |-> 0, error |-> NULL]

\* UPDATE application_queue SET ... WHERE id = $n: the rows whose id is key.
UpdateQueueById(table, key, Change(_)) ==
  [k \in DOMAIN table |-> IF RowKey(k) = key THEN Change(table[k]) ELSE table[k]]

\* job.attemptsMade as the processor reads it during attempt number started.
AttemptsMade(job) ==
  IF attemptsMadeCountsStart THEN job.attemptsStarted ELSE job.attemptsStarted - 1

\* 2^(n-1)
RECURSIVE Pow2(_)
Pow2(n) == IF n <= 0 THEN 1 ELSE 2 * Pow2(n - 1)

\* BullMQ, processor threw: retry after the exponential backoff while fewer
\* than opts.attempts attempts were made, otherwise the job is failed.
\* The same with a retry that is not delayed.
BullFailedNoBackoff(job, error) ==
  LET made == job.attemptsFailed + 1
  IN IF made < BullAttempts
       THEN [job EXCEPT !.state = "waiting", !.attemptsFailed = made,
                        !.failedReason = error]
       ELSE [job EXCEPT !.state = "failed", !.attemptsFailed = made,
                        !.failedReason = error]

BullFailed(job, error) ==
  LET made == job.attemptsFailed + 1
  IN IF made < BullAttempts
       THEN [job EXCEPT !.state = "delayed", !.attemptsFailed = made,
                        !.failedReason = error,
                        !.delays = Append(@, BackoffDelay * Pow2(made - 1))]
       ELSE [job EXCEPT !.state = "failed", !.attemptsFailed = made,
                        !.failedReason = error]

\* BullMQ, processor returned
BullCompleted(job) == [job EXCEPT !.state = "completed"]

\* A worker takes a job that waits and makes it active with a pull that does
\* not claim it.
PullNoClaim(queue, j) == [queue EXCEPT ![j].attemptsStarted = @ + 1]

\* BullMQ moves the job from wait to active in one atomic step.
PullJob(queue, j) ==
  [queue EXCEPT ![j].state = "active", ![j].attemptsStarted = @ + 1]

\* The first free slot of the worker.
FreeSlot(w) ==
  \E k \in 1..Len(WorkerSlots) :
    /\ WorkerSlots[k] = w
    /\ worker[w].pc = "idle"
    /\ \A h \in 1..(k - 1) : worker[WorkerSlots[h]].pc # "idle"

Pull(w, j) ==
  /\ UNCHANGED faults
  /\ FreeSlot(w)
  /\ j \in RowIds(bull)
  /\ bull[j].state = "waiting"
  /\ bull' = PullJob(bull, j)
  /\ worker' = [worker EXCEPT ![w] = [pc |-> "mark", job |-> j, error |-> NULL]]
  /\ UNCHANGED <<job_matches, pass, application_queue, review, applications,
                 notifications, qcall, frame, direct, attemptsMadeCountsStart, scoring, user_profiles, cv, auxVars>>

\* UPDATE application_queue SET status = 'processing' WHERE id = job.id,
\* then the call of applyToJob
WorkerMark(w, dbOk) ==
  /\ Statement(dbOk)
  /\ worker[w].pc = "mark"
  /\ LET job == bull[worker[w].job]
     IN IF dbOk
          THEN /\ application_queue' = UpdateQueueById(application_queue,
                    BullKey(worker[w].job),
                    LAMBDA row : [row EXCEPT !.status = "processing"])
               /\ worker' = [worker EXCEPT ![w].pc = "apply"]
               /\ frame' = [frame EXCEPT ![w] = CallApply(job.userId, job.jobListingId)]
          ELSE /\ worker' = [worker EXCEPT ![w].pc = "catch",
                                           ![w].error = "storage unavailable"]
               /\ UNCHANGED <<application_queue, frame>>
  /\ UNCHANGED <<job_matches, pass, review, applications,
                 notifications, bull, qcall, direct, attemptsMadeCountsStart, scoring, user_profiles, cv, auxVars>>

\* result.success: UPDATE application_queue SET status = 'completed',
\* processed_at = CURRENT_TIMESTAMP WHERE id = job.id
WorkerComplete(w, dbOk) ==
  /\ Statement(dbOk)
  /\ worker[w].pc = "apply"
  /\ frame[w].pc = "returned"
  /\ frame[w].success /\ ~frame[w].threw
  /\ IF dbOk
       THEN /\ application_queue' = UpdateQueueById(application_queue,
                 BullKey(worker[w].job),
                 LAMBDA row : [row EXCEPT !.status = "completed"])
            /\ worker' = [worker EXCEPT ![w].pc = "notify"]
       ELSE /\ worker' = [worker EXCEPT ![w].pc = "catch",
                                        ![w].error = "storage unavailable"]
            /\ UNCHANGED application_queue
  /\ bull' = [bull EXCEPT ![worker[w].job].outcomes = Append(@, "ok"),
                          ![worker[w].job].applicationIds =
                             Append(@, frame[w].applicationId)]
  /\ frame' = [frame EXCEPT ![w] = IdleFrame]
  /\ UNCHANGED <<job_matches, pass, review, applications,
                 notifications, qcall, direct, attemptsMadeCountsStart, scoring, user_profiles, cv, auxVars>>

\* INSERT INTO notifications ...; return {success: true, applicationId}
WorkerNotify(w, dbOk) ==
  /\ Statement(dbOk)
  /\ worker[w].pc = "notify"
  /\ IF dbOk
       THEN /\ notifications' = Append(notifications,
                 [user_id |-> bull[worker[w].job].userId, type |-> "application_sent"])
            /\ bull' = [bull EXCEPT ![worker[w].job] = BullCompleted(@)]
            /\ worker' = [worker EXCEPT ![w] = IdleWorker]
       ELSE /\ worker' = [worker EXCEPT ![w].pc = "catch",
                                        ![w].error = "storage unavailable"]
            /\ bull' = [bull EXCEPT ![worker[w].job].notifyFailed = TRUE]
            /\ UNCHANGED notifications
  /\ UNCHANGED <<job_matches, pass, application_queue, review, applications,
                 qcall, frame, direct, attemptsMadeCountsStart, scoring, user_profiles, cv, auxVars>>

\* catch: UPDATE application_queue SET status = 'failed', error_message = $2,
\* retry_count = retry_count + 1 WHERE id = job.id;
\* if (job.attemptsMade < 3) throw error; return {success: false, ...}
WorkerCatch(w, dbOk) ==
  /\ Statement(dbOk)
  /\ \/ worker[w].pc = "catch"
     \/ /\ worker[w].pc = "apply"
        /\ frame[w].pc = "returned"
        /\ ~frame[w].success \/ frame[w].threw
  /\ LET j == worker[w].job
         fromApply == worker[w].pc = "apply"
         error == IF fromApply THEN frame[w].error ELSE worker[w].error
         job == [bull[j] EXCEPT
                   !.outcomes = IF fromApply THEN Append(@, "fail") ELSE @,
                   !.caught = @ + 1,
                   !.lastError = error]
         thrown == IF dbOk THEN error ELSE "storage unavailable"
         throws == ~dbOk \/ AttemptsMade(job) < RetryLimit
     IN /\ application_queue' =
             IF dbOk
               THEN UpdateQueueById(application_queue, BullKey(j),
                      LAMBDA row : [row EXCEPT !.status = "failed",
                                               !.error_message = error,
                                               !.retry_count = @ + 1])
               ELSE application_queue
        /\ bull' = [bull EXCEPT ![j] = IF throws THEN BullFailed(job, thrown)
                                       ELSE BullCompleted(job)]
  /\ worker' = [worker EXCEPT ![w] = IdleWorker]
  /\ frame' = [frame EXCEPT ![w] = IdleFrame]
  /\ UNCHANGED <<job_matches, pass, review, applications,
                 notifications, qcall, direct, attemptsMadeCountsStart, scoring, user_profiles, cv, auxVars>>

\* The backoff delay of a delayed job has elapsed.
Promote(j) ==
  /\ UNCHANGED faults
  /\ j \in RowIds(bull)
  /\ bull[j].state = "delayed"
  /\ bull' = [bull EXCEPT ![j].state = "waiting"]
  /\ UNCHANGED <<job_matches, pass, application_queue, review, applications,
                 notifications, qcall, worker, frame, direct, attemptsMadeCountsStart, scoring, user_profiles, cv, auxVars>>

\* BullMQ's stalled-job check: a job whose worker stopped renewing its lock
\* goes back to wait, at most maxStalledCount times (the Worker options set
\* none, so the default applies), and is failed after that.
MaxStalledCount == 1

Stalled(job) ==
  IF job.state # "active" THEN job
  ELSE IF job.stalled < MaxStalledCount
    THEN [job EXCEPT !.state = "waiting", !.stalled = @ + 1]
    ELSE [job EXCEPT !.state = "failed", !.stalled = @ + 1,
                     !.failedReason = "job stalled more than allowable limit"]

\* The worker process stops while attempts are in progress: the processor
\* invocations and their applyToJob calls are gone, the statements they have
\* run stay, and after the restart the stalled-job check finds their jobs.
Crash ==
  /\ UNCHANGED faults
  /\ \E w \in Workers : worker[w].pc # "idle"
  /\ worker' = [w \in Workers |-> IdleWorker]
  /\ frame' = [c \in Callers |-> IF c \in Workers THEN IdleFrame ELSE frame[c]]
  /\ bull' = [j \in DOMAIN bull |-> Stalled(bull[j])]
  /\ UNCHANGED <<job_matches, pass, application_queue, review, applications,
                 notifications, qcall, direct, attemptsMadeCountsStart, scoring, user_profiles, cv, auxVars>>

\* ---------------------------------------------------- POST /api/applications
IdleDirect == [pc |-> "idle", status |-> 0]

\* SELECT id FROM applications WHERE user_id = $1 AND job_id = $2; an existing
\* record answers 400, otherwise applyToJob is called.
DirectCheck(d, userId, jobListingId, dbOk) ==
  /\ Statement(dbOk)
  /\ direct[d].pc = "idle"
  /\ direct[d].runs < MaxDirectApplies
  /\ LET existing == \E k \in RowIds(applications) :
                        /\ applications[k].user_id = userId
                        /\ applications[k].job_id = jobListingId
     IN IF ~dbOk \/ existing
          THEN /\ direct' = [direct EXCEPT ![d].status = IF dbOk THEN 400 ELSE 500,
                                           ![d].runs = @ + 1]
               /\ UNCHANGED frame
          ELSE /\ direct' = [direct EXCEPT ![d].pc = "apply", ![d].status = 0]
               /\ frame' = [frame EXCEPT ![d] = CallApply(userId, jobListingId)]
  /\ UNCHANGED <<job_matches, pass, application_queue, review, applications,
                 notifications, bull, qcall, worker, attemptsMadeCountsStart, scoring, user_profiles, cv, auxVars>>

\* 201 with the application id, or 500
DirectRespond(d) ==
  /\ UNCHANGED faults
  /\ direct[d].pc = "apply"
  /\ frame[d].pc = "returned"
  /\ direct' = [direct EXCEPT ![d].pc = "idle",
                              ![d].status = IF frame[d].success /\ ~frame[d].threw
                                              THEN 201 ELSE 500,
                              ![d].runs = @ + 1]
  /\ frame' = [frame EXCEPT ![d] = IdleFrame]
  /\ UNCHANGED <<job_matches, pass, application_queue, review, applications,
                 notifications, bull, qcall, worker, attemptsMadeCountsStart, scoring, user_profiles, cv, auxVars>>

\* ------------------------------------- calculateMatchScore, called directly
\* The second MatchingService (services/matchingServices.js) scores on a 0..1
\* scale from the user's preferences and from matchSkills, which asks the
\* OpenAI chat completion (temperature 0.3) for {matched, score}.  Its numbers
\* are kept here in thousandths; the total, rounded by toFixed(2), in
\* hundredths.
SkillWeight == 400
LocationWeight == 250
LocationAny == 100
SalaryWeight == 150
SalaryLow == 50
SalaryNone == 80
TitleWeight == 150
TitleNone == 50
TypeWeight == 50
SkillFallback == 500
TotalCap == 1000

\* What the chat completion may answer for one prompt: a score with the
\* skills it found, or nothing usable (the call or JSON.parse raises).
Answers ==
  {[parsed |-> TRUE, matched |-> <<>>, score |-> 0],
   [parsed |-> TRUE, matched |-> << <<"p","y">> >>, score |-> 500],
   [parsed |-> TRUE, matched |-> << <<"p","y">> >>, score |-> 800],
   [parsed |-> TRUE, matched |-> << <<"p","y">>, <<"r","e">> >>, score |-> 1000],
   [parsed |-> FALSE, matched |-> <<>>, score |-> 0]}

\* return {matched: result.matched || [], score: result.score || 0.5};
\* catch: return {matched: [], score: 0.5}
matchSkillsAI(answer) ==
  IF ~answer.parsed THEN [matched |-> <<>>, score |-> SkillFallback]
  ELSE [matched |-> answer.matched,
        score |-> IF answer.score = 0 THEN SkillFallback ELSE answer.score]

Some(list, P(_)) == \E k \in 1..Len(list) : P(list[k])

calculateMatchScoreAI(skillMatch, job, preferences) ==
  LET skillScore == (skillMatch.score * SkillWeight) \div TotalCap
      skillReason == IF Len(skillMatch.matched) > 0
                       THEN << [type |-> "skill", matched |-> skillMatch.matched,
                                weight |-> skillScore] >>
                       ELSE <<>>
      nearby == Some(preferences.locations,
                     LAMBDA loc : includes(toLowerCase(job.location), toLowerCase(loc)))
      locationHit == (preferences.remote /\ job.remote) \/ nearby
      locationScore == IF locationHit THEN LocationWeight
                       ELSE IF job.location # <<>> THEN LocationAny ELSE 0
      locationReason == IF locationHit
                          THEN << [type |-> "location", matched |-> <<>>,
                                   weight |-> LocationWeight] >>
                          ELSE <<>>
      asked == job.salary # <<>> /\ preferences.minSalary # 0
      paid == asked /\ parseSalary(job.salary) >= preferences.minSalary
      salaryScore == IF ~asked THEN SalaryNone
                     ELSE IF paid THEN SalaryWeight ELSE SalaryLow
      salaryReason == IF paid
                        THEN << [type |-> "salary", matched |-> <<>>,
                                 weight |-> SalaryWeight] >>
                        ELSE <<>>
      titled == Some(preferences.jobTitles,
                     LAMBDA title : includes(toLowerCase(job.title), toLowerCase(title)))
      titleScore == IF titled THEN TitleWeight ELSE TitleNone
      titleReason == IF titled
                       THEN << [type |-> "title", matched |-> <<>>,
                                weight |-> TitleWeight] >>
                       ELSE <<>>
      typed == \E k \in 1..Len(preferences.employmentTypes) :
                  preferences.employmentTypes[k] = job.job_type
      typeScore == IF typed THEN TypeWeight ELSE 0
      typeReason == IF typed
                      THEN << [type |-> "type", matched |-> <<>>,
                               weight |-> TypeWeight] >>
                      ELSE <<>>
      total == Min(TotalCap, skillScore + locationScore + salaryScore
                             + titleScore + typeScore)
  IN [total |-> RoundDiv(total, 10),
      reasons |-> skillReason \o locationReason \o salaryReason
                    \o titleReason \o typeReason]

\* The arguments the two functions are called with.
ScoreProfiles ==
  [skills : {<<>>, << <<"p","y">> >>, << <<"p","y">>, <<"r","e">> >>},
   desired_job_titles : {<<>>, << <<"E","n","g">> >>},
   remote_preference : {"any", "remote", "hybrid", "onsite"},
   salary_min : {0, 50000, 100000}]

Preferences ==
  [remote : BOOLEAN,
   locations : {<<>>, << <<"n","y">> >>},
   minSalary : {0, 100000},
   jobTitles : {<<>>, << <<"E","n","g">> >>},
   employmentTypes : {<<>>, <<"full_time">>}]

AIListings ==
  {[title |-> <<"P","y"," ","e","n","g">>, location |-> <<"N","Y">>,
    salary |-> <<"$","1","2","0",",","0","0","0">>, remote |-> TRUE,
    job_type |-> "full_time"],
   [title |-> <<"C","o","o","k">>, location |-> <<>>,
    salary |-> <<>>, remote |-> FALSE, job_type |-> "contract"],
   [title |-> <<"e","n","g">>, location |-> <<"S","F">>,
    salary |-> <<"$","9","0","k">>, remote |-> FALSE, job_type |-> "full_time"]}

NoScore == [total |-> 0, reasons |-> <<>>]
IdleScoring ==
  [pc |-> "idle", impl |-> NULL, args |-> <<>>, first |-> NoScore, second |-> NoScore]

\* calculateMatchScore(profile, skills, desiredTitles, job), and again with
\* the same arguments
ScoreBasic(profile, l) ==
  /\ scoring.pc = "idle"
  /\ scoring' = [pc |-> "once", impl |-> "basic", args |-> <<profile, l>>,
                 first |-> calculateMatchScore(profile, profile.skills,
                              profile.desired_job_titles, JobListings[l]),
                 second |-> NoScore]
  /\ UNCHANGED <<job_matches, pass, application_queue, review, applications,
                 notifications, bull, qcall, worker, frame, direct,
                 attemptsMadeCountsStart, faults, user_profiles, cv, auxVars>>

ScoreBasicAgain ==
  /\ scoring.pc = "once" /\ scoring.impl = "basic"
  /\ LET profile == scoring.args[1]
         l == scoring.args[2]
     IN scoring' = [scoring EXCEPT
          !.pc = "twice",
          !.second = calculateMatchScore(profile, profile.skills,
                        profile.desired_job_titles, JobListings[l])]
  /\ UNCHANGED <<job_matches, pass, application_queue, review, applications,
                 notifications, bull, qcall, worker, frame, direct,
                 attemptsMadeCountsStart, faults, user_profiles, cv, auxVars>>

\* calculateMatchScore(userProfile, job, preferences), and again with the
\* same arguments; answer is what the chat completion says this time.
ScoreAI(preferences, job, answer) ==
  /\ scoring.pc = "idle"
  /\ scoring' = [pc |-> "once", impl |-> "ai", args |-> <<preferences, job>>,
                 first |-> calculateMatchScoreAI(matchSkillsAI(answer), job, preferences),
                 second |-> NoScore]
  /\ UNCHANGED <<job_matches, pass, application_queue, review, applications,
                 notifications, bull, qcall, worker, frame, direct,
                 attemptsMadeCountsStart, faults, user_profiles, cv, auxVars>>

ScoreAIAgain(answer) ==
  /\ scoring.pc = "once" /\ scoring.impl = "ai"
  /\ scoring' = [scoring EXCEPT
        !.pc = "twice",
        !.second = calculateMatchScoreAI(matchSkillsAI(answer),
                                         scoring.args[2], scoring.args[1])]
  /\ UNCHANGED <<job_matches, pass, application_queue, review, applications,
                 notifications, bull, qcall, worker, frame, direct,
                 attemptsMadeCountsStart, faults, user_profiles, cv, auxVars>>

\* ---------------------------------------------------------- CV processing
\* A value of a nullable column: <<>> is NULL, <<v>> holds v.
JSONstringify(value) == <<"json", value>>
JSONparse(text) == text[2]

\* The concurrent processCVAsync calls.
CvRuns == {"c1", "c2"}

SupportedExt == {".pdf", ".docx", ".doc"}
MinTextLength == 50

\* Uploaded files: the extension, whether the text can be extracted, and
\* the length of the trimmed text.
Files ==
  {[ext |-> ".pdf", readable |-> TRUE, length |-> 50],
   [ext |-> ".pdf", readable |-> TRUE, length |-> 49],
   [ext |-> ".docx", readable |-> FALSE, length |-> 0],
   [ext |-> ".txt", readable |-> TRUE, length |-> 50]}

\* What the chat completion returns for a CV: nothing usable (the call
\* raises or the content is not JSON), or a JSON object whose skills field
\* is missing (<<>>) or a list (<<list>>).
CvAnswers ==
  {[valid |-> FALSE, skills |-> <<>>],
   [valid |-> TRUE, skills |-> <<>>],
   [valid |-> TRUE, skills |-> << <<"js">> >>],
   [valid |-> TRUE, skills |-> << <<"js", "sql">> >>]}

\* extractTextFromCV: the text (here its length), or an error
extractTextFromCV(file) ==
  IF file.ext \notin SupportedExt THEN [thrown |-> TRUE, length |-> 0]
  ELSE IF ~file.readable THEN [thrown |-> TRUE, length |-> 0]
  ELSE [thrown |-> FALSE, length |-> file.length]

\* parseCV: the parsed data, or the default structure if parsing fails
parseCV(answer) ==
  IF answer.valid
  THEN [skills |-> IF answer.skills = <<>> THEN <<>> ELSE answer.skills[1],
        parseError |-> FALSE]
  ELSE [skills |-> <<>>, parseError |-> TRUE]

NoParsedData == [skills |-> <<>>, parseError |-> FALSE]

\* processCV: never raises, returns success false instead
processCV(file, answer) ==
  LET cvText == extractTextFromCV(file)
  IN IF cvText.thrown \/ cvText.length < MinTextLength
     THEN [success |-> FALSE, parsedData |-> NoParsedData]
     ELSE [success |-> TRUE, parsedData |-> parseCV(answer)]

ProfileRow(userId, skills, parsed) ==
  [user_id |-> userId, skills |-> skills, cv_parsed |-> parsed,
   profile_completed |-> parsed]

ProfilesOf(table, userId) == {k \in RowIds(table) : table[k].user_id = userId}

\* INSERT INTO user_profiles ... ON CONFLICT (user_id) DO UPDATE SET ...
UpsertProfileNoConstraint(table, row) == Append(table, row)
UpsertProfile(table, row) ==
  IF ProfilesOf(table, row.user_id) = {}
  THEN Append(table, row)
  ELSE [k \in RowIds(table) |->
          IF table[k].user_id = row.user_id THEN row ELSE table[k]]

\* INSERT INTO user_profiles ... ON CONFLICT (user_id) DO NOTHING
InsertBasicProfile(table, row) ==
  IF ProfilesOf(table, row.user_id) = {} THEN Append(table, row) ELSE table

\* const skills = profile.skills ? JSON.parse(profile.skills) : []
ParseSkills(row) == IF row.skills = <<>> THEN <<>> ELSE JSONparse(row.skills[1])

IdleCv == [pc |-> "idle", userId |-> NULL, file |-> [ext |-> NULL, readable |-> FALSE, length |-> 0],
           result |-> [success |-> FALSE, parsedData |-> NoParsedData]]

\* POST /api/guest/apply starts processCVAsync and does not wait for it
CvStart(r, userId, file) ==
  /\ cv[r].pc = "idle"
  /\ cv[r].runs < MaxCvRuns
  /\ cv' = [cv EXCEPT ![r] = [@ EXCEPT !.pc = "extract", !.userId = userId,
                                       !.file = file, !.result = IdleCv.result]]
  /\ UNCHANGED <<job_matches, pass, application_queue, review, applications,
                 notifications, bull, qcall, worker, frame, direct,
                 attemptsMadeCountsStart, scoring, faults, user_profiles, auxVars>>

\* const cvResult = await cvParserService.processCV(cvFilePath)
CvExtract(r, answer) ==
  /\ cv[r].pc = "extract"
  /\ cv' = [cv EXCEPT ![r] = [@ EXCEPT !.pc = "store",
                                       !.result = processCV(cv[r].file, answer)]]
  /\ UNCHANGED <<job_matches, pass, application_queue, review, applications,
                 notifications, bull, qcall, worker, frame, direct,
                 attemptsMadeCountsStart, scoring, faults, user_profiles, auxVars>>

\* The INSERT of either branch.  A failed extraction ends the call here; so
\* does a statement that raises, which the catch block only logs.
CvStore(r, ok) ==
  /\ cv[r].pc = "store"
  /\ Statement(ok)
  /\ LET result == cv[r].result
         userId == cv[r].userId
     IN /\ user_profiles' =
             IF ~ok THEN user_profiles
             ELSE IF result.success
             THEN UpsertProfile(user_profiles,
                    ProfileRow(userId, <<JSONstringify(result.parsedData.skills)>>, TRUE))
             ELSE InsertBasicProfile(user_profiles, ProfileRow(userId, <<>>, FALSE))
        /\ cv' = [cv EXCEPT ![r] =
             IF ok /\ result.success
             THEN [@ EXCEPT !.pc = "match"]
             ELSE [@ EXCEPT !.pc = "idle", !.runs = @ + 1]]
  /\ UNCHANGED <<job_matches, pass, application_queue, review, applications,
                 notifications, bull, qcall, worker, frame, direct,
                 attemptsMadeCountsStart, scoring, auxVars>>

\* matchJobsForUser(userId, 20), the email and the activity log: the pass
\* is the one of the matching section, which leaves user_profiles alone.
CvMatch(r) ==
  /\ cv[r].pc = "match"
  /\ cv' = [cv EXCEPT ![r] = [@ EXCEPT !.pc = "idle", !.runs = @ + 1]]
  /\ UNCHANGED <<job_matches, pass, application_queue, review, applications,
                 notifications, bull, qcall, worker, frame, direct,
                 attemptsMadeCountsStart, scoring, faults, user_profiles, auxVars>>

\* ------------------------------------------- worker options: slots, limiter
\* new Worker('applications', processor, {concurrency: 5,
\*   limiter: {max: 10, duration: 60000}}).  Attempts are seen here only as
\* starts and ends: a start is BullMQ moving a job (a first attempt or a
\* retry) to active in a free slot of the worker.
Concurrency == 5
LimiterMax == 10
LimiterDuration == 60000

\* Time advances in steps of half the limiter's duration.
TickLength == LimiterDuration \div 2

Slots == 1..Concurrency

\* clock: milliseconds since the worker started.  count, expires: BullMQ's
\* limiter key, a counter that is created with the first start and expires
\* duration milliseconds later.  started: the time of every start so far.
\* held: the number of attempts in progress in each slot.
IdlePool ==
  [clock |-> 0, count |-> 0, expires |-> 0, started |-> <<>>,
   held |-> [k \in Slots |-> 0]]

FreeSlots == {k \in Slots : pool.held[k] = 0}

\* The value of the limiter key now: an expired key reads as absent.
LimiterCount == IF pool.clock < pool.expires THEN pool.count ELSE 0

\* BullMQ starts no job while the key has reached max;
\* LimiterAllowsAlways is a worker with no limiter.
LimiterAllowsAlways == TRUE
LimiterAllows == LimiterCount < LimiterMax

\* The worker starts a job only in a free slot; SlotsToUseAny is a worker
\* that starts jobs in any slot, free or not.
SlotsToUseAny == Slots
SlotsToUse == FreeSlots

\* A job moves to active: INCR on the limiter key, PEXPIRE on the first.
PoolStart ==
  /\ Len(pool.started) < MaxPoolStarts
  /\ SlotsToUse # {}
  /\ LimiterAllows
  /\ LET slot == CHOOSE k \in SlotsToUse : \A h \in SlotsToUse : k <= h
     IN pool' = [pool EXCEPT
          !.count = LimiterCount + 1,
          !.expires = IF LimiterCount = 0 THEN pool.clock + LimiterDuration ELSE @,
          !.started = Append(@, pool.clock),
          !.held = [@ EXCEPT ![slot] = @ + 1]]
  /\ UNCHANGED <<job_matches, pass, application_queue, review, applications,
                 notifications, bull, qcall, worker, frame, direct,
                 attemptsMadeCountsStart, faults, scoring, user_profiles, cv,
                 reminders, rjob>>

\* The processor returns or throws: the slot is free again.
PoolEnd(slot) ==
  /\ pool.held[slot] > 0
  /\ pool' = [pool EXCEPT !.held = [@ EXCEPT ![slot] = @ - 1]]
  /\ UNCHANGED <<job_matches, pass, application_queue, review, applications,
                 notifications, bull, qcall, worker, frame, direct,
                 attemptsMadeCountsStart, faults, scoring, user_profiles, cv,
                 reminders, rjob>>

PoolTick ==
  /\ pool.clock < MaxTicks * TickLength
  /\ pool' = [pool EXCEPT !.clock = @ + TickLength]
  /\ UNCHANGED <<job_matches, pass, application_queue, review, applications,
                 notifications, bull, qcall, worker, frame, direct,
                 attemptsMadeCountsStart, faults, scoring, user_profiles, cv,
                 reminders, rjob>>

\* ------------------------------------------------------ interviewReminders
\* interviews, all with status 'scheduled' and joined to an application, a
\* user and a listing; scheduled_at in hours after the first run of the job.
Interviews == [i \in {"i1", "i2"} |-> [scheduled_at |-> IF i = "i1" THEN 2 ELSE 25]]
InterviewOrder == <<"i1", "i2">>

ReminderTypes == [h24 |-> [type |-> "24h", hours |-> 24, title |-> "Interview Tomorrow"],
                  h1 |-> [type |-> "1h", hours |-> 1, title |-> "Interview Starting Soon!"]]

\* WHERE i.scheduled_at BETWEEN NOW() AND NOW() + INTERVAL '<hours>' AND NOT
\* EXISTS (SELECT 1 FROM reminders r WHERE r.interview_id = i.id AND
\* r.reminder_type = '<type>' AND r.sent = TRUE)
SelectInterviews(table, now, kind) ==
  SelectSeq(InterviewOrder, LAMBDA i :
    /\ now <= Interviews[i].scheduled_at
    /\ Interviews[i].scheduled_at <= now + kind.hours
    /\ ~\E k \in RowIds(table) :
          /\ table[k].interview_id = i
          /\ table[k].reminder_type = kind.type
          /\ table[k].sent)

\* INSERT INTO reminders (interview_id, reminder_type, sent, sent_at)
\*   VALUES ($1, '<type>', TRUE, CURRENT_TIMESTAMP)
InsertReminder(table, interviewId, type) ==
  IF \E k \in RowIds(table) :
        table[k].interview_id = interviewId /\ table[k].reminder_type = type
    THEN [table |-> table, result |-> "unique_violation"]
    ELSE [table |-> Append(table, [interview_id |-> interviewId,
                                    reminder_type |-> type, sent |-> TRUE]),
          result |-> "inserted"]

IdleReminders == [pc |-> "idle", kind |-> "h24", rows |-> <<>>, i |-> 0]

\* After the loop of a kind: the select of the next kind, or the end of the
\* run, after which the clock reaches the next full hour.
AfterLoop(self) ==
  IF self.kind = "h24"
    THEN [self EXCEPT !.pc = "select", !.kind = "h1", !.rows = <<>>, !.i = 0]
    ELSE IdleReminders @@ [hour |-> self.hour + 1]

NextInterview(self) ==
  IF self.i < Len(self.rows)
    THEN [self EXCEPT !.pc = "notify", !.i = @ + 1]
    ELSE AfterLoop(self)

\* cron.schedule('0 * * * *'): the job starts
RemindersStart ==
  /\ UNCHANGED faults
  /\ rjob.pc = "idle"
  /\ rjob.hour < MaxHours
  /\ rjob' = [rjob EXCEPT !.pc = "select", !.kind = "h24"]
  /\ UNCHANGED <<job_matches, pass, application_queue, review, applications,
                 notifications, bull, qcall, worker, frame, direct,
                 attemptsMadeCountsStart, scoring, user_profiles, cv,
                 pool, reminders>>

\* The SELECT of the interviews due; if it raises, the outer catch ends the run.
RemindersSelect(dbOk) ==
  /\ Statement(dbOk)
  /\ rjob.pc = "select"
  /\ rjob' =
       IF ~dbOk THEN IdleReminders @@ [hour |-> rjob.hour + 1]
       ELSE NextInterview([rjob EXCEPT
              !.rows = SelectInterviews(reminders, rjob.hour, ReminderTypes[rjob.kind]),
              !.i = 0])
  /\ UNCHANGED <<job_matches, pass, application_queue, review, applications,
                 notifications, bull, qcall, worker, frame, direct,
                 attemptsMadeCountsStart, scoring, user_profiles, cv,
                 pool, reminders>>

\* INSERT INTO notifications ...; if it raises, the inner catch logs and the
\* loop goes on with the next interview.
RemindersNotify(dbOk) ==
  /\ Statement(dbOk)
  /\ rjob.pc = "notify"
  /\ IF dbOk
       THEN /\ notifications' = Append(notifications,
                 [user_id |-> "u1", type |-> "interview_reminder",
                  title |-> ReminderTypes[rjob.kind].title,
                  entity_id |-> rjob.rows[rjob.i]])
            /\ rjob' = [rjob EXCEPT !.pc = "mark"]
       ELSE /\ rjob' = NextInterview(rjob)
            /\ UNCHANGED notifications
  /\ UNCHANGED <<job_matches, pass, application_queue, review, applications,
                 bull, qcall, worker, frame, direct,
                 attemptsMadeCountsStart, scoring, user_profiles, cv,
                 pool, reminders>>

\* INSERT INTO reminders ...; if it raises, the inner catch logs.
RemindersMark(dbOk) ==
  /\ Statement(dbOk)
  /\ rjob.pc = "mark"
  /\ reminders' =
       IF dbOk THEN InsertReminder(reminders, rjob.rows[rjob.i],
                                   ReminderTypes[rjob.kind].type).table
       ELSE reminders
  /\ rjob' = NextInterview(rjob)
  /\ UNCHANGED <<job_matches, pass, application_queue, review, applications,
                 notifications, bull, qcall, worker, frame, direct,
                 attemptsMadeCountsStart, scoring, user_profiles, cv,
                 pool>>

\* ------------------------------------------------------------ specification
\* Every table but job_matches empty, every handler idle.
InitWith(matches) ==
  /\ job_matches = matches
  /\ pass = [p \in Passes |-> IdlePass @@ [runs |-> 0]]
  /\ application_queue = <<>>
  /\ review = [r \in Requests |-> IdleReview @@ [runs |-> 0]]
  /\ applications = <<>>
  /\ notifications = <<>>
  /\ bull = <<>>
  /\ qcall = [c \in QueueCalls |-> IdleQCall @@ [runs |-> 0]]
  /\ worker = [w \in Workers |-> IdleWorker]
  /\ frame = [c \in Callers |-> IdleFrame]
  /\ direct = [d \in Directs |-> IdleDirect @@ [runs |-> 0]]
  /\ attemptsMadeCountsStart \in BOOLEAN
  /\ faults = 0
  /\ scoring = IdleScoring
  /\ user_profiles = <<>>
  /\ cv = [r \in CvRuns |-> IdleCv @@ [runs |-> 0]]
  /\ pool = IdlePool
  /\ reminders = <<>>
  /\ rjob = IdleReminders @@ [hour |-> 0]

Init == InitWith(<<>>)

NextMatch ==
  \/ \E p \in Passes, u \in UserIds, n \in Limits : PassProfile(p, u, n)
  \/ \E p \in Passes : PassSelect(p)
  \/ \E p \in Passes, ok \in BOOLEAN : PassIter(p, ok)
  \/ \E p \in Passes : PassReturn(p)

NextReview ==
  \/ \E r \in Requests, rt \in Routes, u \in UserIds,
        m \in 1..(Len(job_matches) + 1), b \in Bodies, ok \in BOOLEAN :
          ReviewUpdate(r, rt, u, m, b, ok)
  \/ \E r \in Requests, ok \in BOOLEAN : ReviewEnqueue(r, ok)
  \/ \E r \in Requests : ReviewRespond(r)

NextQueue ==
  \/ \E c \in QueueCalls, m \in RowIds(job_matches), ok \in BOOLEAN : QueueAdd(c, m, ok)
  \/ \E c \in QueueCalls, ok \in BOOLEAN : QueueInsert(c, ok)
  \/ \E c \in QueueCalls : QueueReturn(c)
  \/ \E w \in Workers, j \in RowIds(bull) : Pull(w, j)
  \/ \E w \in Workers, ok \in BOOLEAN : WorkerMark(w, ok)
  \/ \E w \in Workers, ok \in BOOLEAN : WorkerComplete(w, ok)
  \/ \E w \in Workers, ok \in BOOLEAN : WorkerNotify(w, ok)
  \/ \E w \in Workers, ok \in BOOLEAN : WorkerCatch(w, ok)
  \/ \E j \in RowIds(bull) : Promote(j)
  \/ \E w \in Workers, o \in {"ok", "fail"}, ok \in BOOLEAN : ApplySubmit(w, o, ok)
  \/ \E w \in Workers, ok \in BOOLEAN : ApplyRecord(w, ok)
  \/ \E w \in Workers, ok \in BOOLEAN : ApplyFail(w, ok)

NextDirect ==
  \/ \E d \in Directs, u \in UserIds, l \in ListingIds, ok \in BOOLEAN :
        DirectCheck(d, u, l, ok)
  \/ \E d \in Directs : DirectRespond(d)
  \/ \E d \in Directs, o \in {"ok", "fail"}, ok \in BOOLEAN : ApplySubmit(d, o, ok)
  \/ \E d \in Directs, ok \in BOOLEAN : ApplyRecord(d, ok)
  \/ \E d \in Directs, ok \in BOOLEAN : ApplyFail(d, ok)

NextCrash == NextQueue \/ Crash

NextApply == NextQueue \/ NextDirect

NextStale == NextCrash \/ \E w \in Workers : ApplyHang(w)

\* The steps BullMQ and the event loop take by themselves once they can.
Attempt ==
  \/ \E w \in Workers, j \in RowIds(bull) : Pull(w, j)
  \/ \E w \in Workers, ok \in BOOLEAN : WorkerMark(w, ok)
  \/ \E w \in Workers, ok \in BOOLEAN : WorkerComplete(w, ok)
  \/ \E w \in Workers, ok \in BOOLEAN : WorkerNotify(w, ok)
  \/ \E w \in Workers, ok \in BOOLEAN : WorkerCatch(w, ok)
  \/ \E j \in RowIds(bull) : Promote(j)
  \/ \E w \in Workers, o \in {"ok", "fail"}, ok \in BOOLEAN : ApplySubmit(w, o, ok)
  \/ \E w \in Workers, ok \in BOOLEAN : ApplyRecord(w, ok)
  \/ \E w \in Workers, ok \in BOOLEAN : ApplyFail(w, ok)

NextScore ==
  \/ \E profile \in ScoreProfiles, l \in ListingIds : ScoreBasic(profile, l)
  \/ ScoreBasicAgain
  \/ \E preferences \in Preferences, job \in AIListings, answer \in Answers :
        ScoreAI(preferences, job, answer)
  \/ \E answer \in Answers : ScoreAIAgain(answer)

NextCV ==
  \/ \E r \in CvRuns, userId \in UserIds, file \in Files : CvStart(r, userId, file)
  \/ \E r \in CvRuns, answer \in CvAnswers : CvExtract(r, answer)
  \/ \E r \in CvRuns, ok \in BOOLEAN : CvStore(r, ok)
  \/ \E r \in CvRuns : CvMatch(r)

NextPool ==
  \/ PoolStart
  \/ \E slot \in Slots : PoolEnd(slot)
  \/ PoolTick

NextReminders ==
  \/ RemindersStart
  \/ \E ok \in BOOLEAN : RemindersSelect(ok)
  \/ \E ok \in BOOLEAN : RemindersNotify(ok)
  \/ \E ok \in BOOLEAN : RemindersMark(ok)

Next ==
  NextMatch \/ NextReview \/ NextQueue \/ NextDirect \/ NextStale \/ NextScore \/ NextCV
    \/ NextPool \/ NextReminders

\* The whole pipeline.
Spec == Init /\ [][Next]_vars

\* Matching passes alone, from the empty tables.
SpecMatch == Init /\ [][NextMatch]_vars

\* CV processing alone, from the empty tables.
SpecCV == Init /\ [][NextCV]_vars

\* The hourly interviewReminders job alone.
SpecReminders == Init /\ [][NextReminders]_vars

\* The worker's slots and limiter alone.
SpecPool == Init /\ [][NextPool]_vars

\* The two scoring functions on their own.
SpecScore == Init /\ [][NextScore]_vars

\* job_matches after one complete pass for u1: l1 and l3 scored at or above
\* the threshold, l2 discarded.
ScoreOf(userId, jobId) ==
  calculateMatchScore(Profiles[userId], Profiles[userId].skills,
                      Profiles[userId].desired_job_titles, JobListings[jobId])

MatchedTable ==
  InsertMatch(InsertMatch(<<>>, "u1", "l1", ScoreOf("u1", "l1")).table,
              "u1", "l3", ScoreOf("u1", "l3")).table

\* The review gate, after a matching pass has run.
InitReview == InitWith(MatchedTable)

SpecReview == InitReview /\ [][NextReview]_vars

\* The queue and its worker, after a matching pass has run.
InitQueue == InitWith(MatchedTable)

SpecQueue == InitQueue /\ [][NextQueue]_vars

\* The worker alone, after queueApplication has returned for the match of
\* u1 and l1: the job waits and its record is pending.
InitRetry ==
  /\ job_matches = MatchedTable
  /\ pass = [p \in Passes |-> IdlePass @@ [runs |-> 0]]
  /\ application_queue =
       <<QueueRow(1, NULL, NULL, "pending", NULL, "queueApplication")>>
  /\ review = [r \in Requests |-> IdleReview @@ [runs |-> 0]]
  /\ applications = <<>>
  /\ notifications = <<>>
  /\ bull = <<[BullJob("u1", "l1", 1) EXCEPT !.row = 1]>>
  /\ qcall = [c \in QueueCalls |-> IdleQCall @@ [runs |-> 1]]
  /\ worker = [w \in Workers |-> IdleWorker]
  /\ frame = [c \in Callers |-> IdleFrame]
  /\ direct = [d \in Directs |-> IdleDirect @@ [runs |-> 0]]
  /\ attemptsMadeCountsStart \in BOOLEAN
  /\ faults = 0
  /\ scoring = IdleScoring
  /\ user_profiles = <<>>
  /\ cv = [r \in CvRuns |-> IdleCv @@ [runs |-> 0]]
  /\ pool = IdlePool
  /\ reminders = <<>>
  /\ rjob = IdleReminders @@ [hour |-> 0]

SpecRetry == InitRetry /\ [][Attempt]_vars

\* The queue and its worker, with stops of the worker process.
SpecCrash == InitQueue /\ [][NextCrash]_vars

\* The same with calls that never return, and a worker that goes on whenever
\* it can.
SpecStale == InitQueue /\ [][NextStale]_vars /\ WF_vars(Attempt)

\* The queue and its worker together with POST /api/applications.
SpecApply == InitQueue /\ [][NextApply]_vars

\* Applications submitted through POST /api/applications.
SpecDirect == InitQueue /\ [][NextDirect]_vars

\* ================================================================== claims

\* -------------------------------------------------------------------- C1
PairRows(u, l) ==
  Count(job_matches, LAMBDA row : row.user_id = u /\ row.job_id = l)

\* C1: whatever the interleaving of the select-unmatched and insert steps of
\* the matching passes, job_matches holds at most one row per (user, listing)
\* pair, and an insert that meets an existing row of its pair returns
\* normally: the pass goes on to push the listing, it does not take the
\* dbError branch.
C1_OneRowPerPair ==
  /\ \A u \in UserIds, l \in ListingIds : PairRows(u, l) <= 1
  /\ \A p \in Passes, l \in ListingIds :
       pass[p].result[l] = "conflict" => l \in Range(pass[p].matches)

\* Two passes selected the same unmatched listing; one insert created the row,
\* the other met it.
C1_Witness ==
  \E p, q \in Passes, l \in ListingIds :
    /\ p # q
    /\ pass[p].userId = pass[q].userId
    /\ pass[p].result[l] = "inserted"
    /\ pass[q].result[l] = "conflict"
    /\ PairRows(pass[p].userId, l) = 1

\* -------------------------------------------------------------------- C2
\* C2: a review request that finds its match already reviewed is refused with
\* AlreadyReviewed (409) and writes nothing to the match.
C2_ReReviewRefused ==
  \A r \in Requests :
    review[r].wasReviewed => ~review[r].updated /\ review[r].status = 409

\* -------------------------------------------------------------------- C3
\* C3: of two review requests in progress at the same time for the same
\* match, at most one gets its update applied.
C3_OneWinner ==
  \A r1, r2 \in Requests :
    (/\ r1 # r2
     /\ review[r1].pc # "idle" /\ review[r2].pc # "idle"
     /\ review[r1].matchId = review[r2].matchId)
    => ~(review[r1].updated /\ review[r2].updated)

\* -------------------------------------------------------------------- C4
\* C4: a finished review request has enqueued one ApplyJob if it approved a
\* match and none otherwise.
C4_ApprovalEnqueuesOne ==
  \A r \in Requests :
    review[r].pc = "done" =>
      review[r].enqueued = IF review[r].updated /\ review[r].approved THEN 1 ELSE 0

\* -------------------------------------------------------------------- C5
QueueRowsOf(m) == Count(application_queue, LAMBDA row : row.match = m)

Enqueueing(m) ==
  \E r \in Requests : review[r].pc = "enqueue" /\ review[r].matchId = m

\* C5: while no statement has failed and no approval is between its update
\* and its insert, application_queue holds one row for every approved match
\* and none for any other match.
C5_OneJobPerApprovedMatch ==
  faults = 0 =>
    \A m \in RowIds(job_matches) :
      ~Enqueueing(m) =>
        QueueRowsOf(m) = IF job_matches[m].approved THEN 1 ELSE 0

\* -------------------------------------------------------------------- C6
Finished(j) == bull[j].state \in {"completed", "failed"}

\* C6: no fourth attempt is started for a job, and when no statement fails a
\* job whose attempts have failed three times and whose third failure has
\* been handled has status failed in its application_queue record.
C6_ExhaustedIsFailed ==
  \A j \in RowIds(bull) :
    /\ bull[j].attemptsStarted <= RetryLimit
    /\ (faults = 0 /\ bull[j].row # 0 /\ bull[j].caught = RetryLimit) =>
          application_queue[bull[j].row].status = "failed"

\* -------------------------------------------------------------------- C7
AllowedStatusChange ==
  {<<"pending", "processing">>, <<"processing", "completed">>,
   <<"processing", "pending">>, <<"processing", "failed">>}

\* C7: every application_queue record starts as pending, and its status
\* changes only from pending to processing and from processing to completed,
\* pending or failed.
C7_StatusMachine ==
  [][\A k \in RowIds(application_queue') :
       IF k \in RowIds(application_queue)
         THEN \/ application_queue'[k].status = application_queue[k].status
              \/ <<application_queue[k].status, application_queue'[k].status>>
                   \in AllowedStatusChange
         ELSE application_queue'[k].status = "pending"]_vars

\* -------------------------------------------------------------------- C8
JobApplications(j) ==
  {k \in RowIds(applications) :
     /\ k \in Range(bull[j].applicationIds)
     /\ applications[k].user_id = bull[j].userId
     /\ applications[k].job_id = bull[j].jobListingId}

\* C8: when no statement fails, a job whose applyToJob calls failed, failed
\* and succeeded ends completed, in the queue and in its application_queue
\* record, with one applications record written for it and two backoff
\* delays.
C8_FailFailSucceed ==
  \A j \in RowIds(bull) :
    (/\ faults = 0 /\ bull[j].row # 0 /\ Finished(j)
     /\ bull[j].outcomes = <<"fail", "fail", "ok">>) =>
       /\ bull[j].state = "completed"
       /\ application_queue[bull[j].row].status = "completed"
       /\ Cardinality(JobApplications(j)) = 1
       /\ Len(bull[j].applicationIds) = 1
       /\ Len(bull[j].delays) = 2

C8_Witness ==
  \E j \in RowIds(bull) :
    /\ faults = 0
    /\ Finished(j)
    /\ bull[j].outcomes = <<"fail", "fail", "ok">>
    /\ bull[j].attemptsStarted = BullAttempts

\* -------------------------------------------------------------------- C9
\* C9: when no statement fails, a job whose three applyToJob calls all failed
\* has made exactly three attempts, its application_queue record is failed
\* and holds the error of the last attempt, and no applications record was
\* written for it.
C9_AlwaysFailing ==
  \A j \in RowIds(bull) :
    (/\ faults = 0 /\ bull[j].row # 0 /\ Finished(j)
     /\ bull[j].outcomes = <<"fail", "fail", "fail">>) =>
       /\ bull[j].attemptsStarted = RetryLimit
       /\ bull[j].applicationIds = <<>>
       /\ application_queue[bull[j].row].status = "failed"
       /\ application_queue[bull[j].row].error_message = bull[j].lastError

\* ------------------------------------------------------------------- C10
Holders(j) == {w \in Workers : worker[w].pc # "idle" /\ worker[w].job = j}

C11_EnqueueReturnsRecordId ==
  [][/\ \A c \in QueueCalls :
          (qcall[c].pc = "insert" /\ qcall'[c].pc = "done" /\ ~qcall'[c].threw) =>
             LET k == bull'[qcall[c].job].row
             IN /\ Len(application_queue') = Len(application_queue) + 1
                /\ k = Len(application_queue')
                /\ application_queue'[k].status = "pending"
                /\ application_queue'[k].retry_count = 0
                /\ BullKey(qcall[c].job) = RowKey(k)
     /\ \A w \in Workers :
          (/\ worker[w].pc = "mark" /\ worker'[w].pc = "apply"
           /\ bull[worker[w].job].row # 0) =>
             application_queue'[bull[worker[w].job].row].status = "processing"]_vars

\* ------------------------------------------------------------------- C12
PairApplications(j) ==
  Count(applications, LAMBDA row : /\ row.user_id = bull[j].userId
                                   /\ row.job_id = bull[j].jobListingId)

\* C12: with stops of the worker process and no failing statement, the
\* application of a job is neither duplicated nor lost: the site is never
\* asked again after it accepted the application, at most one applications
\* record is written for the job, and a finished job whose application the
\* site accepted has its applications record.
C12_CrashKeepsApplication ==
  faults = 0 =>
    \A j \in RowIds(bull) :
      /\ bull[j].submitted <= 1
      /\ Len(bull) = 1 => PairApplications(j) <= 1
      /\ (Finished(j) /\ bull[j].submitted >= 1) => PairApplications(j) >= 1

\* ------------------------------------------------------------------- C13
\* C13: a job that is being processed does not stay so for ever: also when
\* the worker process stops or the call of the site never returns, the job
\* is eventually taken out of processing (back to wait, or finished).
C13_NoJobStuck ==
  \A j \in 1..MaxQueueCalls :
    (j \in RowIds(bull) /\ bull[j].state = "active")
      ~> (j \in RowIds(bull) /\ bull[j].state # "active")

\* ------------------------------------------------------------------- C14
\* C14: once the notification write that follows a successful application
\* has failed, the job is not counted as failed, it stays on its way to
\* completed, and the site is not asked again for it.
C14_NotificationFailureIsHarmless ==
  [][\A j \in RowIds(bull) :
       bull[j].notifyFailed =>
          /\ bull'[j].attemptsFailed = bull[j].attemptsFailed
          /\ bull'[j].submitted = bull[j].submitted
          /\ bull'[j].state \in {"active", "completed"}]_vars

\* ------------------------------------------------------------------- C15
JobsOfPair(userId, jobId) ==
  {j \in RowIds(bull) : bull[j].userId = userId /\ bull[j].jobListingId = jobId}

\* C15: every applications record belongs to a job of its (user, listing)
\* pair that is completed or is in the attempt that wrote it, and a pair
\* whose only job is completed has exactly one applications record.
C15_RecordOnlyForSucceededJob ==
  /\ \A k \in RowIds(applications) :
       \E j \in JobsOfPair(applications[k].user_id, applications[k].job_id) :
          bull[j].state \in {"active", "completed"}
  /\ \A j \in RowIds(bull) :
       (/\ bull[j].state = "completed"
        /\ JobsOfPair(bull[j].userId, bull[j].jobListingId) = {j})
       => PairApplications(j) = 1

\* ------------------------------------------------------------------- C16
NotTheirs(m, u) == m \notin RowIds(job_matches) \/ job_matches[m].user_id # u

\* C16: a review request with a boolean body for a match that does not exist
\* or belongs to another user, whose UPDATE ran, is answered 404, changes no
\* row of job_matches and inserts no application_queue row.
C16_ReviewNotFound ==
  [][\A r \in Requests :
       (/\ review[r].pc = "idle" /\ review'[r].pc # "idle"
        /\ review'[r].status \notin {400, 500}
        /\ NotTheirs(review'[r].matchId, review'[r].userId))
       => /\ review'[r].status = 404
          /\ review'[r].pc = "done"
          /\ ~review'[r].updated
          /\ review'[r].enqueued = 0
          /\ job_matches' = job_matches
          /\ application_queue' = application_queue]_vars

\* A user asked to approve a match of another user and got 404; the match is
\* still pending.
C16_Witness ==
  \E r \in Requests :
    /\ review[r].status = 404
    /\ review[r].approved
    /\ review[r].matchId \in RowIds(job_matches)
    /\ job_matches[review[r].matchId].user_id # review[r].userId
    /\ ~job_matches[review[r].matchId].reviewed

\* ------------------------------------------------------------------- C17
\* C17: every row of job_matches has a match_score of at least the minimum
\* score, and no pass pushed or inserted a listing it had discarded.
C17_NoRowBelowThreshold ==
  /\ \A k \in RowIds(job_matches) : job_matches[k].match_score >= MinScore
  /\ \A p \in Passes, l \in ListingIds :
       pass[p].result[l] = "discarded" =>
          /\ l \notin Range(pass[p].matches)
          /\ PairRows(pass[p].userId, l) = 0

\* A pass has scored a listing below the minimum and gone on to insert a
\* later one.
C17_Witness ==
  \E p \in Passes, l, h \in ListingIds :
    /\ pass[p].result[l] = "discarded"
    /\ ScoreOf(pass[p].userId, l).total < MinScore
    /\ pass[p].result[h] = "inserted"

\* ------------------------------------------------------------------- C18
\* C18: every total calculateMatchScore returns lies between 0 and 100, and
\* two calls with the same arguments return the same total and the same list
\* of reasons.
C18_ScoreBoundedAndDeterministic ==
  /\ scoring.pc # "idle" => scoring.first.total \in 0..MaxTotal
  /\ scoring.pc = "twice" =>
       /\ scoring.second.total \in 0..MaxTotal
       /\ scoring.second.total = scoring.first.total
       /\ scoring.second.reasons = scoring.first.reasons

\* The same for the keyword scoring of part_000 alone.
C18_KeywordScore ==
  scoring.impl = "basic" => C18_ScoreBoundedAndDeterministic

\* The step in which call r of processCVAsync runs its INSERT and the
\* statement executes.
CvStored(r) == cv[r].pc = "store" /\ cv'[r].pc # "store" /\ faults' = faults

OneProfileAfter(userId) == Cardinality(ProfilesOf(user_profiles', userId)) = 1

ProfileAfter(userId) ==
  user_profiles'[CHOOSE k \in ProfilesOf(user_profiles', userId) : TRUE]

ReviewState(row) ==
  IF ~row.reviewed THEN "pending" ELSE IF row.approved THEN "approved" ELSE "rejected"

\* C20: a job_matches row, once it exists, keeps its score and reasons, and
\* the only change it ever undergoes is one review transition, from pending
\* to approved or to rejected.
C20_MatchFrozenButReview ==
  [][\A k \in RowIds(job_matches) :
        /\ k \in RowIds(job_matches')
        /\ job_matches'[k].match_score = job_matches[k].match_score
        /\ job_matches'[k].match_reasons = job_matches[k].match_reasons
        /\ job_matches'[k].user_id = job_matches[k].user_id
        /\ job_matches'[k].job_id = job_matches[k].job_id
        /\ job_matches'[k] # job_matches[k] =>
             /\ ReviewState(job_matches[k]) = "pending"
             /\ ReviewState(job_matches'[k]) \in {"approved", "rejected"}]_vars

\* The part of C20 about scoring: no step changes the score, the reasons or
\* the pair of an existing job_matches row.
C20_ScoreNeverChanges ==
  [][\A k \in RowIds(job_matches) :
        /\ k \in RowIds(job_matches')
        /\ job_matches'[k].match_score = job_matches[k].match_score
        /\ job_matches'[k].match_reasons = job_matches[k].match_reasons
        /\ job_matches'[k].user_id = job_matches[k].user_id
        /\ job_matches'[k].job_id = job_matches[k].job_id]_vars

\* C21: when an attempt ends in the catch block and it was not the third
\* attempt started, the job is delayed and not waiting, by 5 seconds after the
\* first failure and 10 seconds after the second; a delayed job is not
\* started before its delay has elapsed.
C21_BackoffDoubles ==
  [][\A j \in RowIds(bull) :
        /\ (bull'[j].caught = bull[j].caught + 1 /\ bull[j].attemptsStarted < 3) =>
              /\ bull'[j].state = "delayed"
              /\ bull'[j].delays =
                   Append(bull[j].delays,
                          IF bull'[j].caught = 1 THEN 5000 ELSE 10000)
        /\ bull[j].state = "delayed" =>
              /\ bull'[j].attemptsStarted = bull[j].attemptsStarted
              /\ bull'[j].state \in {"delayed", "waiting"}
        /\ bull'[j].delays \in {<<>>, <<5000>>, <<5000, 10000>>}]_vars

\* A job failed twice, was delayed by 5 and then by 10 seconds, and its
\* third attempt has started.
C21_Witness ==
  \E j \in RowIds(bull) :
    /\ bull[j].delays = <<5000, 10000>>
    /\ bull[j].caught = 2
    /\ bull[j].attemptsStarted = 3

\* Starts in the 60 seconds that begin at time t.
StartsInWindow(t) ==
  Cardinality({k \in 1..Len(pool.started) :
                 t <= pool.started[k] /\ pool.started[k] < t + 60000})

\* C22: in every window of 60 seconds at most 10 attempts are started.
C22_RollingWindow ==
  \A k \in 1..Len(pool.started) : StartsInWindow(pool.started[k]) <= 10

\* The bound the limiter key gives: at most 10 starts between the creation
\* of the key and its expiry, however many slots are free.
C22_KeyWindow ==
  /\ LimiterCount <= 10
  /\ LimiterCount =
       Cardinality({k \in 1..Len(pool.started) :
                      /\ pool.clock < pool.expires
                      /\ pool.expires - 60000 <= pool.started[k]})

RECURSIVE SumHeld(_)
SumHeld(S) ==
  IF S = {} THEN 0
  ELSE LET k == CHOOSE x \in S : TRUE IN pool.held[k] + SumHeld(S \ {k})

SalaryPoints(score) ==
  IF \E k \in 1..Len(score.reasons) : score.reasons[k].type = "salary"
    THEN score.reasons[CHOOSE k \in 1..Len(score.reasons) :
                          score.reasons[k].type = "salary"].weight
    ELSE 0

\* A salary text parses to a number when a digit occurs in it.
Parseable(text) == \E k \in 1..Len(text) : IsDigit(text[k])

\* C24: the salary factor of a computed score is 10 when the profile has a
\* salary floor and the listing's salary parses to a number at or above it,
\* 0 when it parses to a number below the floor, and 5 when the floor is
\* absent or the salary text is absent or does not parse.
C24_SalaryFactor ==
  (scoring.pc # "idle" /\ scoring.impl = "basic") =>
    LET profile == scoring.args[1]
        text == JobListings[scoring.args[2]].salary_range
        points == SalaryPoints(scoring.first)
    IN IF profile.salary_min = 0 \/ ~Parseable(text) THEN points = 5
       ELSE IF parseSalary(text) >= profile.salary_min THEN points = 10
       ELSE points = 0

\* What a factor contributes when it falls back to its default.
DefaultPoints(type) ==
  CASE type = "skill" -> 0
    [] type = "title" -> 5
    [] type = "location" -> 5
    [] type = "salary" -> 5
    [] type = "type" -> 3

\* C25: every reason of a computed score belongs to a factor that
\* contributed more than zero and more than its default.
C25_ReasonsOnlyAboveDefault ==
  (scoring.pc # "idle" /\ scoring.impl = "basic") =>
    \A k \in 1..Len(scoring.first.reasons) :
      /\ scoring.first.reasons[k].weight > 0
      /\ scoring.first.reasons[k].weight > DefaultPoints(scoring.first.reasons[k].type)

\* The rule the code follows: a reason for every factor that contributed
\* more than zero, and for no other.
C25_ReasonsWhenPositive ==
  (scoring.pc # "idle" /\ scoring.impl = "basic") =>
    LET profile == scoring.args[1]
        job == JobListings[scoring.args[2]]
        reasons == scoring.first.reasons
        Has(type) == \E k \in 1..Len(reasons) : reasons[k].type = type
    IN /\ \A k \in 1..Len(reasons) : reasons[k].weight > 0
       /\ Has("title") /\ Has("location") /\ Has("type")
       /\ Has("salary") <=> matchSalary(profile, job.salary_range) > 0

\* C26: in every state of job_matches an approved row is a reviewed row, so
\* a row that is not reviewed is not approved.
C26_ApprovedImpliesReviewed ==
  \A k \in RowIds(job_matches) :
    /\ job_matches[k].approved => job_matches[k].reviewed
    /\ ~job_matches[k].reviewed => ~job_matches[k].approved

\* One row has been approved, another is still not reviewed.
C26_Witness ==
  /\ \E k \in RowIds(job_matches) : job_matches[k].approved /\ job_matches[k].reviewed
  /\ \E k \in RowIds(job_matches) : ~job_matches[k].reviewed

\* C27: a pass lists a (candidate, listing) pair among the matches it
\* created only if its own INSERT created the row, so no pair is listed by
\* two overlapping passes for the same candidate.
C27_CreatedByOnePass ==
  /\ \A p \in Passes : \A jobId \in Range(pass[p].matches) :
        pass[p].result[jobId] = "inserted"
  /\ \A p, q \in Passes :
        (p # q /\ pass[p].userId = pass[q].userId) =>
           Range(pass[p].matches) \cap Range(pass[q].matches) = {}

\* C28: whenever no queueApplication call stands between its two writes, a
\* BullMQ job for a match exists if and only if an application_queue record
\* for that match exists.
C28_QueueWritesAllOrNothing ==
  (\A c \in QueueCalls : qcall[c].pc # "insert") =>
    \A m \in RowIds(job_matches) :
      (\E j \in RowIds(bull) : bull[j].matchId = m)
        <=> (\E k \in RowIds(application_queue) : application_queue[k].match = m)

\* C29: the applications table holds at most one record for a (candidate,
\* listing) pair, whatever the interleaving of POST /api/applications
\* requests and attempts of the worker, no statement failing.
C29_OneApplicationPerPair ==
  faults = 0 =>
    \A u \in UserIds, l \in ListingIds :
      Cardinality({k \in RowIds(applications) :
                     applications[k].user_id = u /\ applications[k].job_id = l}) <= 1

ReminderNotifications(interviewId, title) ==
  Cardinality({k \in RowIds(notifications) :
                 /\ notifications[k].type = "interview_reminder"
                 /\ notifications[k].entity_id = interviewId
                 /\ notifications[k].title = title})

\* C30: over any sequence of hourly runs an interview gets at most one
\* 'Interview Tomorrow' notification and at most one 'Interview Starting
\* Soon!' notification, also when an INSERT INTO reminders has failed.
C30_OneReminderEach ==
  \A i \in DOMAIN Interviews :
    /\ ReminderNotifications(i, "Interview Tomorrow") <= 1
    /\ ReminderNotifications(i, "Interview Starting Soon!") <= 1

\* The same as long as no statement has failed.
C30_OneReminderEachNoFailure ==
  faults = 0 => C30_OneReminderEach
====
